---- MODULE Spec2Model ----
(***************************************************************************)
(* Call set-up state machine of InstantMeet (src/src/App.tsx): two browser *)
(* clients, each running the App component, the module-level socket.io     *)
(* channel of each client, the simple-peer connections the handlers        *)
(* create, and the identity registry that routes the signaling messages.   *)
(*                                                                         *)
(* One action models one whole handler together with the render and the    *)
(* effect run it triggers.  Time is counted in milliseconds and advances    *)
(* one second at a time.                                                   *)
(***************************************************************************)
EXTENDS Integers, Sequences, FiniteSets, TLC

\* ---------------------------------------------------------------- bounds
MaxPeers == 3
MaxStreams == 2
MaxDrops == 1
MaxGumFailures == 1
MaxGumPending == 1

\* ------------------------------------------------------ program constants
reconnectionAttempts == 5
ErrorClearDelay == 3000

Clients == {"A", "B"}
\* a well-formed code that no client holds
UnknownCode == "zzz"
Codes == Clients \cup {UnknownCode}
NoCode == ""
NoPeer == 0
NoStream == 0
NoError == "null"

ErrBusy == "User is busy in another call"
ErrNotFound == "User not found. Please check the meeting code"
ErrConnFailed == "Connection failed. Please try again."
ErrCamCall == "Camera access required to start a call"
ErrCamIncoming == "Please enable camera access before accepting calls"
ErrCamAccept == "Please enable camera access before accepting the call"
RoutingNotices == {ErrBusy, ErrNotFound}

GumErrorNames == {"NotAllowedError", "NotFoundError", "Other"}

VARIABLES
  myCode,            \* [Clients -> code]       useState(nanoid(10))
  targetCode,        \* [Clients -> code]
  calling,           \* [Clients -> BOOLEAN]
  receiving,         \* [Clients -> BOOLEAN]
  inCall,            \* [Clients -> BOOLEAN]
  stream,            \* [Clients -> 0..MaxStreams]  0 is null
  error,             \* [Clients -> message]
  permissionDenied,  \* [Clients -> BOOLEAN]
  connectionRef,     \* [Clients -> peer id]    0 is undefined
  peerVideo,         \* [Clients -> peer id]    srcObject of the remote sink, 0 is null
  gumPending,        \* [Clients -> Nat]        getUserMedia calls not yet settled
  gumFailures,       \* Nat                     rejected getUserMedia calls so far
  connectHandlers,   \* [Clients -> Nat]        listeners registered for 'connect'
  timers,            \* [Clients -> Seq(0..ErrorClearDelay)]  pending setTimeout, ms left
  errorAge,          \* [Clients -> 0..ErrorClearDelay]  ms the routing notice has been shown
  connected,         \* [Clients -> BOOLEAN]    socket.connected
  attempts,          \* [Clients -> 0..reconnectionAttempts]
  drops,             \* Nat                     channel drops so far
  outq,              \* [Clients -> Seq(msg)]   emitted, not yet routed by the registry
  registered,        \* set of codes the registry maps
  paired,            \* set of codes the registry holds as in a call
  peers              \* Seq(peer record)        every Peer constructed so far

clientVars == <<myCode, targetCode, calling, receiving, inCall, error,
                connectionRef, peerVideo>>
mediaVars == <<stream, permissionDenied, gumPending, gumFailures, connectHandlers>>
timeVars == <<timers, errorAge>>
channelVars == <<connected, attempts, drops, outq>>
registryVars == <<registered, paired>>
vars == <<clientVars, mediaVars, timeVars, channelVars, registryVars, peers>>

\* ---------------------------------------------------------------- helpers
PeerIds == 1..Len(peers)
LivePeersOf(c) == {p \in PeerIds : peers[p].owner = c /\ ~peers[p].destroyed}
Idle(c) == ~calling[c] /\ ~receiving[c] /\ ~inCall[c]

\* peer.destroy(): idempotent, no event is emitted by a destroyed peer
Destroy(ps, p) ==
  IF p = NoPeer THEN ps ELSE [ps EXCEPT ![p].destroyed = TRUE]

\* The <video ref={peerVideo}> element exists only while inCall is rendered;
\* a newly mounted element has no srcObject.
Sink(wasInCall, nowInCall, src) ==
  IF wasInCall /\ nowInCall THEN src ELSE NoPeer

Init ==
  /\ myCode = [c \in Clients |-> c]
  /\ targetCode = [c \in Clients |-> NoCode]
  /\ calling = [c \in Clients |-> FALSE]
  /\ receiving = [c \in Clients |-> FALSE]
  /\ inCall = [c \in Clients |-> FALSE]
  /\ stream = [c \in Clients |-> NoStream]
  /\ error = [c \in Clients |-> NoError]
  /\ permissionDenied = [c \in Clients |-> FALSE]
  /\ connectionRef = [c \in Clients |-> NoPeer]
  /\ peerVideo = [c \in Clients |-> NoPeer]
  /\ gumPending = [c \in Clients |-> 1]
  /\ gumFailures = 0
  /\ connectHandlers = [c \in Clients |-> 1]
  /\ timers = [c \in Clients |-> <<>>]
  /\ errorAge = [c \in Clients |-> 0]
  /\ connected = [c \in Clients |-> FALSE]
  /\ attempts = [c \in Clients |-> 0]
  /\ drops = 0
  /\ outq = [c \in Clients |-> <<>>]
  /\ registered = {}
  /\ paired = {}
  /\ peers = <<>>

\* ------------------------------------------------- media (device gate)
\* catch branch of requestMediaPermissions: the message chosen by err.name
GumErrorMessage(name) ==
  IF name = "NotAllowedError"
  THEN "Camera and microphone access was denied. Please grant permission to continue."
  ELSE IF name = "NotFoundError"
  THEN "No camera or microphone found. Please connect a device and try again."
  ELSE "Failed to access camera and microphone. Please check your device settings."

\* requestMediaPermissions up to its await: clears the error, starts getUserMedia
RequestMediaPermissions(c) ==
  /\ error' = [error EXCEPT ![c] = NoError]
  /\ errorAge' = [errorAge EXCEPT ![c] = 0]
  /\ gumPending' = [gumPending EXCEPT ![c] = @ + 1]

\* getUserMedia resolves: setStream(new object), setPermissionDenied(false);
\* the render changes `stream`, so the effect's cleanup runs (destroys the
\* current connection) and the effect runs again (registers one more
\* 'connect' listener, calls requestMediaPermissions again).
GumResolve(c) ==
  /\ gumPending[c] > 0
  /\ stream[c] < MaxStreams
  /\ stream' = [stream EXCEPT ![c] = @ + 1]
  /\ permissionDenied' = [permissionDenied EXCEPT ![c] = FALSE]
  /\ peers' = Destroy(peers, connectionRef[c])
  /\ connectHandlers' = [connectHandlers EXCEPT ![c] = @ + 1]
  /\ error' = [error EXCEPT ![c] = NoError]
  /\ errorAge' = [errorAge EXCEPT ![c] = 0]
  /\ UNCHANGED <<gumPending, gumFailures>>
  /\ UNCHANGED <<myCode, targetCode, calling, receiving, inCall, connectionRef, peerVideo>>
  /\ UNCHANGED <<timers, channelVars, registryVars>>

\* getUserMedia rejects: setPermissionDenied(true), setError(by err.name)
GumReject(c, name) ==
  /\ gumPending[c] > 0
  /\ gumFailures < MaxGumFailures
  /\ gumFailures' = gumFailures + 1
  /\ gumPending' = [gumPending EXCEPT ![c] = @ - 1]
  /\ permissionDenied' = [permissionDenied EXCEPT ![c] = TRUE]
  /\ error' = [error EXCEPT ![c] = GumErrorMessage(name)]
  /\ errorAge' = [errorAge EXCEPT ![c] = 0]
  /\ UNCHANGED <<stream, connectHandlers>>
  /\ UNCHANGED <<myCode, targetCode, calling, receiving, inCall, connectionRef, peerVideo>>
  /\ UNCHANGED <<timers, channelVars, registryVars, peers>>

\* "Request Camera Access" button: shown in the join panel while permissionDenied
RetryClick(c) ==
  /\ permissionDenied[c] /\ ~inCall[c] /\ ~receiving[c]
  /\ gumPending[c] < MaxGumPending
  /\ RequestMediaPermissions(c)
  /\ UNCHANGED <<stream, permissionDenied, gumFailures, connectHandlers>>
  /\ UNCHANGED <<myCode, targetCode, calling, receiving, inCall, connectionRef, peerVideo>>
  /\ UNCHANGED <<timers, channelVars, registryVars, peers>>

\* 'devicechange' listener
DeviceChange(c) ==
  /\ gumPending[c] < MaxGumPending
  /\ RequestMediaPermissions(c)
  /\ UNCHANGED <<stream, permissionDenied, gumFailures, connectHandlers>>
  /\ UNCHANGED <<myCode, targetCode, calling, receiving, inCall, connectionRef, peerVideo>>
  /\ UNCHANGED <<timers, channelVars, registryVars, peers>>

\* ------------------------------------------------------- user actions
\* <input onChange={setTargetCode}>: the join panel is shown while
\* !inCall && !receiving; the user types the code of somebody else
SetTargetCode(c, t) ==
  /\ ~inCall[c] /\ ~receiving[c]
  /\ t # myCode[c]
  /\ targetCode[c] # t
  /\ targetCode' = [targetCode EXCEPT ![c] = t]
  /\ UNCHANGED <<myCode, calling, receiving, inCall, error, connectionRef, peerVideo>>
  /\ UNCHANGED <<mediaVars, timeVars, channelVars, registryVars, peers>>

NewPeer(c, isInitiator, remote, offer) ==
  [owner |-> c, initiator |-> isInitiator, remote |-> remote, offer |-> offer,
   signaled |-> FALSE, fed |-> 0, answered |-> FALSE, streamFired |-> FALSE, destroyed |-> FALSE]

\* callUser
CallUser(c) ==
  IF stream[c] = NoStream
  THEN /\ error' = [error EXCEPT ![c] = ErrCamCall]
       /\ errorAge' = [errorAge EXCEPT ![c] = 0]
       /\ UNCHANGED <<calling, connectionRef, peers>>
  ELSE /\ Len(peers) < MaxPeers
       /\ calling' = [calling EXCEPT ![c] = TRUE]
       /\ peers' = Append(peers, NewPeer(c, TRUE, targetCode[c], NoPeer))
       /\ connectionRef' = [connectionRef EXCEPT ![c] = Len(peers) + 1]
       /\ UNCHANGED <<error, errorAge>>

\* faulty variant: a "Join" button that ignores permissionDenied
CallClick_NoGate(c) ==
  /\ ~inCall[c] /\ ~receiving[c]
  /\ targetCode[c] # NoCode /\ ~calling[c]
  /\ CallUser(c)
  /\ UNCHANGED <<myCode, targetCode, receiving, inCall, peerVideo>>
  /\ UNCHANGED <<mediaVars, timers, channelVars, registryVars>>

\* "Join" button: in the join panel, disabled={!targetCode || calling || permissionDenied}
CallClick(c) ==
  /\ ~inCall[c] /\ ~receiving[c]
  /\ targetCode[c] # NoCode /\ ~calling[c] /\ ~permissionDenied[c]
  /\ CallUser(c)
  /\ UNCHANGED <<myCode, targetCode, receiving, inCall, peerVideo>>
  /\ UNCHANGED <<mediaVars, timers, channelVars, registryVars>>

\* acceptCall
AcceptCall(c) ==
  IF stream[c] = NoStream
  THEN /\ error' = [error EXCEPT ![c] = ErrCamAccept]
       /\ errorAge' = [errorAge EXCEPT ![c] = 0]
       /\ UNCHANGED <<receiving, inCall, peerVideo>>
  ELSE /\ receiving' = [receiving EXCEPT ![c] = FALSE]
       /\ inCall' = [inCall EXCEPT ![c] = TRUE]
       /\ peerVideo' = [peerVideo EXCEPT ![c] = Sink(inCall[c], TRUE, @)]
       /\ UNCHANGED <<error, errorAge>>

\* "Accept" button: in the incoming-call panel, disabled={permissionDenied}
AcceptClick(c) ==
  /\ receiving[c] /\ ~permissionDenied[c]
  /\ AcceptCall(c)
  /\ UNCHANGED <<myCode, targetCode, calling, connectionRef>>
  /\ UNCHANGED <<mediaVars, timers, channelVars, registryVars, peers>>

\* endCall
EndCall(c, ps) ==
  /\ peers' = Destroy(ps, connectionRef[c])
  /\ peerVideo' = [peerVideo EXCEPT ![c] = NoPeer]
  /\ inCall' = [inCall EXCEPT ![c] = FALSE]
  /\ calling' = [calling EXCEPT ![c] = FALSE]
  /\ receiving' = [receiving EXCEPT ![c] = FALSE]
  /\ targetCode' = [targetCode EXCEPT ![c] = NoCode]

\* "Decline" (incoming-call panel) and "End Call" (in-call panel) buttons
EndClick(c) ==
  /\ receiving[c] \/ inCall[c]
  /\ EndCall(c, peers)
  /\ UNCHANGED <<myCode, error, connectionRef>>
  /\ UNCHANGED <<mediaVars, timeVars, channelVars, registryVars>>

\* ------------------------------------------------- signaling channel
\* faulty variant: answers the caller of the current connection instead of
\* the caller whose offer built p
AnswerMsg_ToCurrentCaller(p) ==
  [type |-> "answerCall", to |-> peers[connectionRef[peers[p].owner]].remote, signal |-> p]

\* faulty variant: announces the code typed into the join field
ReadyMsg_TargetCode(c) == [type |-> "ready", code |-> targetCode[c]]

ReadyMsg(c) == [type |-> "ready", code |-> myCode[c]]
OfferMsg(c, p) ==
  [type |-> "callUser", userToCall |-> peers[p].remote, from |-> myCode[c], signalData |-> p]
AnswerMsg(p) == [type |-> "answerCall", to |-> peers[p].remote, signal |-> p]

\* n copies of m appended to q
RECURSIVE AppendN(_, _, _)
AppendN(q, m, n) == IF n = 0 THEN q ELSE AppendN(Append(q, m), m, n - 1)

\* socket 'connect': every listener registered by an effect run emits 'ready'
OnConnect(c) ==
  outq' = [outq EXCEPT ![c] = AppendN(@, ReadyMsg(c), connectHandlers[c])]

\* the channel (re)connects within its bounded attempts
ConnectOk(c) ==
  /\ ~connected[c]
  /\ attempts[c] < reconnectionAttempts
  /\ connected' = [connected EXCEPT ![c] = TRUE]
  /\ attempts' = [attempts EXCEPT ![c] = 0]
  /\ OnConnect(c)
  /\ UNCHANGED drops
  /\ UNCHANGED <<clientVars, mediaVars, timeVars, registryVars, peers>>

\* one (re)connection attempt fails; after reconnectionAttempts the channel gives up
ConnectFail(c) ==
  /\ ~connected[c]
  /\ attempts[c] < reconnectionAttempts
  /\ attempts' = [attempts EXCEPT ![c] = @ + 1]
  /\ UNCHANGED <<connected, drops, outq>>
  /\ UNCHANGED <<clientVars, mediaVars, timeVars, registryVars, peers>>

\* the channel drops: the registry forgets the code, emits are buffered until
\* the next connect.
\* App.tsx registers no 'disconnect' listener.
ChannelDrop(c) ==
  /\ connected[c]
  /\ drops < MaxDrops
  /\ drops' = drops + 1
  /\ connected' = [connected EXCEPT ![c] = FALSE]
  /\ attempts' = [attempts EXCEPT ![c] = 0]
  /\ registered' = registered \ {myCode[c]}
  /\ paired' = paired \ {myCode[c]}
  /\ UNCHANGED outq
  /\ UNCHANGED <<clientVars, mediaVars, timeVars, peers>>

\* ------------------------------------------- socket listeners (useEffect)
\* faulty variant: builds the responder connection without testing `stream`
OnCallUser_NoStreamCheck(c, m) ==
  /\ Len(peers) < MaxPeers
  /\ receiving' = [receiving EXCEPT ![c] = TRUE]
  /\ peers' = Append(peers, NewPeer(c, FALSE, m.from, m.signal))
  /\ connectionRef' = [connectionRef EXCEPT ![c] = Len(peers) + 1]
  /\ UNCHANGED <<error, errorAge>>

\* socket.on('callUser')
OnCallUser(c, m) ==
  IF stream[c] = NoStream
  THEN /\ error' = [error EXCEPT ![c] = ErrCamIncoming]
       /\ errorAge' = [errorAge EXCEPT ![c] = 0]
       /\ UNCHANGED <<receiving, connectionRef, peers>>
  ELSE /\ Len(peers) < MaxPeers
       /\ receiving' = [receiving EXCEPT ![c] = TRUE]
       /\ peers' = Append(peers, NewPeer(c, FALSE, m.from, m.signal))
       /\ connectionRef' = [connectionRef EXCEPT ![c] = Len(peers) + 1]
       /\ UNCHANGED <<error, errorAge>>

\* peer.signal(answer): throws on a destroyed peer; a live initiator that has
\* sent its offer and holds no answer yet takes it; any other live peer is fed
\* a payload it cannot apply
Signal(ps, p) ==
  IF p = NoPeer \/ ps[p].destroyed THEN ps
  ELSE [ps EXCEPT ![p].fed = IF @ < 2 THEN @ + 1 ELSE @,
                  ![p].answered = @ \/ (ps[p].initiator /\ ps[p].signaled /\ ps[p].fed = 0)]

\* faulty variant: feeds the answer and leaves Calling without setInCall(true)
OnCallAccepted_NoInCall(c, m) ==
  /\ inCall' = inCall
  /\ calling' = [calling EXCEPT ![c] = FALSE]
  /\ peerVideo' = peerVideo
  /\ peers' = Signal(peers, connectionRef[c])

\* socket.on('callAccepted')
OnCallAccepted(c, m) ==
  /\ inCall' = [inCall EXCEPT ![c] = TRUE]
  /\ calling' = [calling EXCEPT ![c] = FALSE]
  /\ peerVideo' = [peerVideo EXCEPT ![c] = Sink(inCall[c], TRUE, @)]
  /\ peers' = Signal(peers, connectionRef[c])

\* setTimeout(() => setError(null), 3000)
SetClearTimer(c) ==
  timers' = [timers EXCEPT ![c] = Append(@, ErrorClearDelay)]

\* socket.on('userBusy')
OnUserBusy(c) ==
  /\ calling' = [calling EXCEPT ![c] = FALSE]
  /\ error' = [error EXCEPT ![c] = ErrBusy]
  /\ errorAge' = [errorAge EXCEPT ![c] = 0]
  /\ SetClearTimer(c)

\* socket.on('userNotFound')
OnUserNotFound(c) ==
  /\ calling' = [calling EXCEPT ![c] = FALSE]
  /\ error' = [error EXCEPT ![c] = ErrNotFound]
  /\ errorAge' = [errorAge EXCEPT ![c] = 0]
  /\ SetClearTimer(c)

\* the channel dispatches a routed message to the listener of its event
Dispatch(c, m) ==
  CASE m.type = "callUser" ->
         /\ OnCallUser(c, m)
         /\ UNCHANGED <<myCode, targetCode, calling, inCall, peerVideo, timers>>
    [] m.type = "callAccepted" ->
         /\ OnCallAccepted(c, m)
         /\ UNCHANGED <<myCode, targetCode, receiving, error, connectionRef, timeVars>>
    [] m.type = "userBusy" ->
         /\ OnUserBusy(c)
         /\ UNCHANGED <<myCode, targetCode, receiving, inCall, connectionRef, peerVideo, peers>>
    [] m.type = "userNotFound" ->
         /\ OnUserNotFound(c)
         /\ UNCHANGED <<myCode, targetCode, receiving, inCall, connectionRef, peerVideo, peers>>

\* ------------------------------------------------------------ registry
OwnerOf(code) == CHOOSE c \in Clients : myCode[c] = code

\* announce: the code is mapped to the connection it came from
RouteReady(c, m) ==
  /\ registered' = registered \cup {m.code}
  /\ UNCHANGED <<clientVars, timeVars, peers, paired>>

\* callOffered: not-found for an unmapped code, busy for a paired one,
\* otherwise the offer goes to the target with the sender's `from`
RouteOffer(c, m) ==
  /\ IF m.userToCall \notin registered
     THEN Dispatch(c, [type |-> "userNotFound"])
     ELSE IF m.userToCall \in paired
     THEN Dispatch(c, [type |-> "userBusy"])
     ELSE Dispatch(OwnerOf(m.userToCall),
                   [type |-> "callUser", from |-> m.from, signal |-> m.signalData])
  /\ UNCHANGED <<registered, paired>>

\* callAnswered: the answer goes to the caller and the two codes are paired
RouteAnswer(c, m) ==
  /\ IF m.to \in registered
     THEN /\ Dispatch(OwnerOf(m.to), [type |-> "callAccepted", signal |-> m.signal])
          /\ paired' = paired \cup {m.to, myCode[c]}
     ELSE UNCHANGED <<clientVars, timeVars, peers, paired>>
  /\ UNCHANGED registered

\* the registry takes the oldest message a connected client has emitted and
\* the event it routes reaches its listener
Route(c) ==
  /\ connected[c]
  /\ outq[c] # <<>>
  /\ LET m == Head(outq[c]) IN
       /\ outq' = [outq EXCEPT ![c] = Tail(@)]
       /\ CASE m.type = "ready" -> RouteReady(c, m)
            [] m.type = "callUser" -> RouteOffer(c, m)
            [] m.type = "answerCall" -> RouteAnswer(c, m)
  /\ UNCHANGED <<connected, attempts, drops>>
  /\ UNCHANGED mediaVars

\* an offer from a caller outside the modelled clients reaches the callUser
\* listener of the announced, unpaired client c
ForeignOffer(c, f) ==
  /\ connected[c]
  /\ myCode[c] \in registered /\ myCode[c] \notin paired
  /\ Dispatch(c, [type |-> "callUser", from |-> f, signal |-> NoPeer])
  /\ UNCHANGED <<mediaVars, channelVars, registryVars>>

\* ------------------------------------------------ simple-peer callbacks
\* peer.on('signal'): trickle is off, so one payload per peer: the offer of an
\* initiator, the answer of a responder (which was fed the offer at construction)
PeerSignal(p) ==
  /\ p \in PeerIds
  /\ ~peers[p].destroyed /\ ~peers[p].signaled
  /\ peers' = [peers EXCEPT ![p].signaled = TRUE]
  /\ LET c == peers[p].owner IN
       outq' = [outq EXCEPT ![c] =
                  Append(@, IF peers[p].initiator THEN OfferMsg(c, p) ELSE AnswerMsg(p))]
  /\ UNCHANGED <<connected, attempts, drops>>
  /\ UNCHANGED <<clientVars, mediaVars, timeVars, registryVars>>

\* peer.on('stream'): fires once the remote description is applied
PeerStream(p) ==
  /\ p \in PeerIds
  /\ ~peers[p].destroyed /\ ~peers[p].streamFired
  /\ peers[p].initiator => peers[p].answered
  /\ peers' = [peers EXCEPT ![p].streamFired = TRUE]
  /\ LET c == peers[p].owner IN
       peerVideo' = [peerVideo EXCEPT ![c] = IF inCall[c] THEN p ELSE @]
  /\ UNCHANGED <<myCode, targetCode, calling, receiving, inCall, error, connectionRef>>
  /\ UNCHANGED <<mediaVars, timeVars, channelVars, registryVars>>

\* transport failure: the library destroys the peer and emits 'error'.  Only
\* the initiator built by callUser has an 'error' listener (setError, endCall);
\* on a responder the event has no listener.
PeerError(p) ==
  /\ p \in PeerIds
  /\ ~peers[p].destroyed
  /\ LET c == peers[p].owner IN
       IF peers[p].initiator
       THEN /\ error' = [error EXCEPT ![c] = ErrConnFailed]
            /\ errorAge' = [errorAge EXCEPT ![c] = 0]
            /\ EndCall(c, Destroy(peers, p))
            /\ UNCHANGED <<myCode, connectionRef>>
       ELSE /\ peers' = Destroy(peers, p)
            /\ UNCHANGED <<clientVars, errorAge>>
  /\ UNCHANGED <<mediaVars, timers, channelVars, registryVars>>

\* p and q are the two ends of one handshake: one was built from the other's offer
Linked(p, q) == peers[p].offer = q \/ peers[q].offer = p

\* the remote end of a negotiated connection has been destroyed: the library
\* closes p and emits 'close', for which neither callUser nor the callUser
\* listener registers a handler
PeerClose(p) ==
  /\ p \in PeerIds
  /\ ~peers[p].destroyed /\ peers[p].signaled
  /\ \E q \in PeerIds : Linked(p, q) /\ peers[q].destroyed /\ peers[q].signaled
  /\ peers' = Destroy(peers, p)
  /\ UNCHANGED <<clientVars, mediaVars, timeVars, channelVars, registryVars>>

\* ----------------------------------------------------------------- time
\* a setTimeout callback that is due: setError(null)
TimerFire(c) ==
  /\ timers[c] # <<>>
  /\ Head(timers[c]) = 0
  /\ timers' = [timers EXCEPT ![c] = Tail(@)]
  /\ error' = [error EXCEPT ![c] = NoError]
  /\ errorAge' = [errorAge EXCEPT ![c] = 0]
  /\ UNCHANGED <<myCode, targetCode, calling, receiving, inCall, connectionRef, peerVideo>>
  /\ UNCHANGED <<mediaVars, channelVars, registryVars, peers>>

\* one second (1000 ms) passes; a due callback runs before time moves on
Tick ==
  /\ \E c \in Clients : timers[c] # <<>>
  /\ \A c \in Clients : timers[c] # <<>> => Head(timers[c]) > 0
  /\ timers' = [c \in Clients |-> [i \in 1..Len(timers[c]) |-> timers[c][i] - 1000]]
  /\ errorAge' = [c \in Clients |->
                    IF error[c] \in RoutingNotices THEN errorAge[c] + 1000 ELSE 0]
  /\ UNCHANGED <<clientVars, mediaVars, channelVars, registryVars, peers>>

\* ---------------------------------------------------------- specification
\* media acquisition: the effect's request, its outcomes, retry and devicechange
MediaNext ==
  \/ \E c \in Clients : GumResolve(c)
  \/ \E c \in Clients : \E n \in GumErrorNames : GumReject(c, n)
  \/ \E c \in Clients : RetryClick(c)
  \/ \E c \in Clients : DeviceChange(c)

\* start-up: the effect's media loop and the signaling channel
SetupNext ==
  \/ \E c \in Clients : GumResolve(c)
  \/ \E c \in Clients : ConnectOk(c)
  \/ \E c \in Clients : ConnectFail(c)
  \/ \E c \in Clients : ChannelDrop(c)
  \/ \E c \in Clients : Route(c)

\* the call state machine with the media loop of the effect
CallNext ==
  \/ \E c \in Clients : GumResolve(c)
  \/ \E c \in Clients : \E t \in Codes : SetTargetCode(c, t)
  \/ \E c \in Clients : CallClick(c)
  \/ \E c \in Clients : AcceptClick(c)
  \/ \E c \in Clients : EndClick(c)
  \/ \E c \in Clients : Route(c)
  \/ \E p \in 1..MaxPeers : PeerSignal(p)
  \/ \E p \in 1..MaxPeers : PeerStream(p)
  \/ \E p \in 1..MaxPeers : PeerError(p)

Next ==
  \/ MediaNext
  \/ SetupNext
  \/ CallNext
  \/ \E c \in Clients : ForeignOffer(c, UnknownCode)
  \/ \E p \in 1..MaxPeers : PeerClose(p)
  \/ \E c \in Clients : TimerFire(c)
  \/ Tick

\* both clients hold a media handle and are announced; the effect has re-run
\* once and its getUserMedia call is outstanding
Ready ==
  /\ myCode = [c \in Clients |-> c]
  /\ targetCode = [c \in Clients |-> NoCode]
  /\ calling = [c \in Clients |-> FALSE]
  /\ receiving = [c \in Clients |-> FALSE]
  /\ inCall = [c \in Clients |-> FALSE]
  /\ stream = [c \in Clients |-> 1]
  /\ error = [c \in Clients |-> NoError]
  /\ permissionDenied = [c \in Clients |-> FALSE]
  /\ connectionRef = [c \in Clients |-> NoPeer]
  /\ peerVideo = [c \in Clients |-> NoPeer]
  /\ gumPending = [c \in Clients |-> 1]
  /\ gumFailures = 0
  /\ connectHandlers = [c \in Clients |-> 2]
  /\ timers = [c \in Clients |-> <<>>]
  /\ errorAge = [c \in Clients |-> 0]
  /\ connected = [c \in Clients |-> TRUE]
  /\ attempts = [c \in Clients |-> 0]
  /\ drops = 0
  /\ outq = [c \in Clients |-> <<>>]
  /\ registered = Clients
  /\ paired = {}
  /\ peers = <<>>

\* the whole program from construction
Spec == Init /\ [][Next]_vars

\* media acquisition alone, from construction
MediaSpec == Init /\ [][MediaNext]_vars

\* start-up and channel, from construction
SetupSpec == Init /\ [][SetupNext]_vars

\* calls between two announced clients
CallSpec == Ready /\ [][CallNext]_vars

\* calls with the clock, while the outstanding getUserMedia call stays pending
\* and no transport fails
TimedNext ==
  \/ \E c \in Clients : \E t \in Codes : SetTargetCode(c, t)
  \/ \E c \in Clients : CallClick(c)
  \/ \E c \in Clients : AcceptClick(c)
  \/ \E c \in Clients : EndClick(c)
  \/ \E c \in Clients : Route(c)
  \/ \E p \in 1..MaxPeers : PeerSignal(p)
  \/ \E p \in 1..MaxPeers : PeerStream(p)
  \/ \E c \in Clients : TimerFire(c)
  \/ Tick

TimedSpec == Ready /\ [][TimedNext]_vars

\* the one call of a scenario: the first click on "Join", on a connected client
FirstCall(c) ==
  /\ connected[c]
  /\ peers = <<>>
  /\ CallClick(c)

\* one call between two announced clients that nobody ends and in which no
\* transport fails; the media loop of the effect goes on
HappyNext ==
  \/ \E c \in Clients : \E t \in Codes : SetTargetCode(c, t)
  \/ \E c \in Clients : FirstCall(c)
  \/ \E c \in Clients : AcceptClick(c)
  \/ \E c \in Clients : Route(c)
  \/ \E p \in 1..MaxPeers : PeerSignal(p)
  \/ \E p \in 1..MaxPeers : PeerStream(p)
  \/ \E c \in Clients : GumResolve(c)

\* the registry routes what is emitted, the peers produce their payloads and
\* remote streams, and a client that is offered a call accepts it
HappyFairness ==
  /\ \A c \in Clients : WF_vars(Route(c))
  /\ \A c \in Clients : WF_vars(AcceptClick(c))
  /\ \A p \in 1..MaxPeers : WF_vars(PeerSignal(p))
  /\ \A p \in 1..MaxPeers : WF_vars(PeerStream(p))

HappySpec == Ready /\ [][HappyNext]_vars /\ HappyFairness

\* the same single call with an unreliable channel and a user who may hang up
DropNext ==
  \/ HappyNext
  \/ \E c \in Clients : EndClick(c)
  \/ \E c \in Clients : ChannelDrop(c)
  \/ \E c \in Clients : ConnectOk(c)
  \/ \E c \in Clients : ConnectFail(c)

\* what runs without the user: routing, peer callbacks, and every pending
\* (re)connection attempt ends, in success or in failure
DropFairness ==
  /\ \A c \in Clients : WF_vars(Route(c))
  /\ \A c \in Clients : WF_vars(ConnectOk(c) \/ ConnectFail(c))
  /\ \A p \in 1..MaxPeers : WF_vars(PeerSignal(p))
  /\ \A p \in 1..MaxPeers : WF_vars(PeerStream(p))

DropSpec == Ready /\ [][DropNext]_vars /\ DropFairness

\* both clients are announced while the first getUserMedia call of the effect
\* is still outstanding: no media handle yet
Announced ==
  /\ myCode = [c \in Clients |-> c]
  /\ targetCode = [c \in Clients |-> NoCode]
  /\ calling = [c \in Clients |-> FALSE]
  /\ receiving = [c \in Clients |-> FALSE]
  /\ inCall = [c \in Clients |-> FALSE]
  /\ stream = [c \in Clients |-> NoStream]
  /\ error = [c \in Clients |-> NoError]
  /\ permissionDenied = [c \in Clients |-> FALSE]
  /\ connectionRef = [c \in Clients |-> NoPeer]
  /\ peerVideo = [c \in Clients |-> NoPeer]
  /\ gumPending = [c \in Clients |-> 1]
  /\ gumFailures = 0
  /\ connectHandlers = [c \in Clients |-> 1]
  /\ timers = [c \in Clients |-> <<>>]
  /\ errorAge = [c \in Clients |-> 0]
  /\ connected = [c \in Clients |-> TRUE]
  /\ attempts = [c \in Clients |-> 0]
  /\ drops = 0
  /\ outq = [c \in Clients |-> <<>>]
  /\ registered = Clients
  /\ paired = {}
  /\ peers = <<>>

\* one call placed and offered while the device gate grants, refuses and retries
GateNext ==
  \/ MediaNext
  \/ \E c \in Clients : \E t \in Codes : SetTargetCode(c, t)
  \/ \E c \in Clients : FirstCall(c)
  \/ \E c \in Clients : AcceptClick(c)
  \/ \E c \in Clients : Route(c)
  \/ \E p \in 1..MaxPeers : PeerSignal(p)

GateSpec == Announced /\ [][GateNext]_vars

\* offers from the other client and from an outside caller, and their answers
AddressNext ==
  \/ \E c \in Clients : \E t \in Codes : SetTargetCode(c, t)
  \/ \E c \in Clients : CallClick(c)
  \/ \E c \in Clients : ForeignOffer(c, UnknownCode)
  \/ \E c \in Clients : Route(c)
  \/ \E p \in 1..MaxPeers : PeerSignal(p)

AddressSpec == Ready /\ [][AddressNext]_vars

\* start-up in which every getUserMedia call that can settle does settle,
\* and no retry click or devicechange event occurs
LoopFairness == \A c \in Clients : WF_vars(GumResolve(c))

LoopSpec == Init /\ [][SetupNext]_vars /\ LoopFairness

\* a and b are in one established call: both InCall, a's current connection is
\* the live initiator that took b's answer, b's current connection is the live
\* responder built from a's offer
Established(a, b) ==
  /\ inCall[a] /\ inCall[b]
  /\ connectionRef[a] \in LivePeersOf(a)
  /\ connectionRef[b] \in LivePeersOf(b)
  /\ peers[connectionRef[a]].initiator /\ peers[connectionRef[a]].answered
  /\ ~peers[connectionRef[b]].initiator
  /\ peers[connectionRef[b]].offer = connectionRef[a]

\* the "End Call" click of a participant of an established call
HangUp(c) ==
  /\ \E b \in Clients \ {c} : Established(c, b) \/ Established(b, c)
  /\ EndClick(c)

\* one call that is established and then ended by one of its participants
HangupNext ==
  \/ HappyNext
  \/ \E c \in Clients : HangUp(c)
  \/ \E p \in 1..MaxPeers : PeerClose(p)

\* routing, peer callbacks and accept as in HappyFairness; the transport
\* notices that its remote end is gone
HangupFairness ==
  /\ HappyFairness
  /\ \A p \in 1..MaxPeers : WF_vars(PeerClose(p))

HangupSpec == Ready /\ [][HangupNext]_vars /\ HangupFairness

\* ------------------------------------------------------------------ claims
\* what C1 calls the call state, the current connection and the remote sink
CallStateOf(c) == <<calling[c], receiving[c], inCall[c], connectionRef[c], peerVideo[c]>>

\* p has been built and is not the current connection of its owner
Replaced(p) == p \in PeerIds /\ connectionRef[peers[p].owner] # p

\* the oldest emit of b is an answer to an offer whose initiator connection is
\* no longer the caller's current live one
StaleAnswerAt(b) ==
  /\ connected[b] /\ outq[b] # <<>>
  /\ Head(outq[b]).type = "answerCall"
  /\ Head(outq[b]).to \in registered
  /\ LET q == peers[Head(outq[b]).signal].offer
         a == OwnerOf(Head(outq[b]).to)
     IN  connectionRef[a] # q \/ peers[q].destroyed

\* C1: an event of a connection that is not the client's current one (a
\* stream or error callback of a replaced connection, an answer for a call
\* whose initiator connection was destroyed or replaced) leaves the client's
\* calling/receiving/inCall flags, its current connection and its remote
\* sink as they were.
C1_StaleEventIgnored ==
  [][ /\ \A p \in 1..MaxPeers :
           (Replaced(p) /\ (PeerStream(p) \/ PeerError(p)))
             => (CallStateOf(peers[p].owner))' = CallStateOf(peers[p].owner)
      /\ \A b \in Clients :
           (StaleAnswerAt(b) /\ Route(b))
             => (CallStateOf(OwnerOf(Head(outq[b]).to)))' = CallStateOf(OwnerOf(Head(outq[b]).to))
    ]_vars

\* C2: a client never has more than one live PeerConnection (constructed and
\* not destroyed).
C2_AtMostOneLivePeer ==
  \A c \in Clients : Cardinality(LivePeersOf(c)) <= 1

\* C3: at most one of calling, receiving and inCall is true of a client, so
\* it is in exactly one of Idle, Calling, Receiving, InCall.
C3_OneCallState ==
  \A c \in Clients :
    /\ ~(calling[c] /\ receiving[c])
    /\ ~(calling[c] /\ inCall[c])
    /\ ~(receiving[c] /\ inCall[c])

\* a further endCall would change nothing
EndCallIsNoOp(c) ==
  /\ Destroy(peers, connectionRef[c]) = peers
  /\ peerVideo[c] = NoPeer
  /\ Idle(c)
  /\ targetCode[c] = NoCode

\* endCall runs for c in this step: a Decline/End Call click, or the 'error'
\* listener of one of its initiator connections
EndCallRuns(c) ==
  \/ EndClick(c)
  \/ \E p \in 1..MaxPeers :
       p \in PeerIds /\ peers[p].owner = c /\ peers[p].initiator /\ PeerError(p)

\* C4: endCall in Calling, Receiving or InCall leaves the client Idle with the
\* target code cleared, none of its PeerConnections alive and the remote sink
\* detached, and a second endCall changes nothing.
C4_EndCallCleansUp ==
  [][ \A c \in Clients :
        (~Idle(c) /\ EndCallRuns(c))
          => /\ Idle(c)' /\ targetCode'[c] = NoCode
             /\ LivePeersOf(c)' = {}
             /\ peerVideo'[c] = NoPeer
             /\ EndCallIsNoOp(c)'
    ]_vars

\* C6: while a client is Receiving the call of its current responder
\* connection, that connection's answer has not been emitted.
C6_AnswerHeldUntilAccept ==
  \A c \in Clients :
    (receiving[c] /\ connectionRef[c] # NoPeer /\ ~peers[connectionRef[c]].initiator)
      => ~peers[connectionRef[c]].signaled

\* C8: a transport failure of the current connection of a client that is
\* Calling or InCall destroys the connection and leaves the client Idle with
\* an error shown, for an initiator and for a responder connection.
C8_TransportErrorEndsCall ==
  [][ \A p \in 1..MaxPeers :
        ( /\ p \in PeerIds
          /\ connectionRef[peers[p].owner] = p
          /\ calling[peers[p].owner] \/ inCall[peers[p].owner]
          /\ PeerError(p) )
          => /\ peers'[p].destroyed
             /\ Idle(peers[p].owner)'
             /\ error'[peers[p].owner] # NoError
    ]_vars

\* a routing notice is raised for c in this step (its clear timer is set)
NoticeRaised(c) == Len(timers'[c]) > Len(timers[c])

\* C7: every targetBusy / targetNotFound that follows an initiateCall leaves
\* the client Idle, and a routing
\* notice is shown for exactly ErrorClearDelay ms from the moment it was
\* raised: it is not taken down earlier and is cleared when the delay is over.
C7_NoticeShownForDelay ==
  [][ \A c \in Clients :
        /\ (NoticeRaised(c) /\ ~receiving[c] /\ ~inCall[c]) => Idle(c)'
        /\ (error[c] \in RoutingNotices /\ ~NoticeRaised(c) /\ error'[c] # error[c])
             => (errorAge[c] = ErrorClearDelay /\ error'[c] = NoError)
        /\ error[c] \in RoutingNotices => errorAge[c] <= ErrorClearDelay
    ]_vars

\* b has emitted an offer addressed to a / an answer addressed to a that the
\* registry has not routed yet
OfferOnWire(b, a) ==
  \E i \in 1..Len(outq[b]) : outq[b][i].type = "callUser" /\ outq[b][i].userToCall = myCode[a]
AnswerOnWire(b, a) ==
  \E i \in 1..Len(outq[b]) : outq[b][i].type = "answerCall" /\ outq[b][i].to = myCode[a]

\* C5: in a call that nobody ends and in which nothing fails, once the
\* caller's offer is on its way the callee becomes Receiving, and once the
\* callee's answer is on its way both become InCall (the callee by accept).
C5_HappyPath ==
  \A a \in Clients : \A b \in Clients \ {a} :
    /\ OfferOnWire(a, b) ~> receiving[b]
    /\ AnswerOnWire(b, a) ~> (inCall[a] /\ inCall[b])

C5_Witness ==
  \E a \in Clients : \E b \in Clients \ {a} :
    /\ inCall[a] /\ inCall[b]
    /\ connectionRef[a] # NoPeer /\ peers[connectionRef[a]].initiator
    /\ peers[connectionRef[a]].answered
    /\ connectionRef[b] # NoPeer /\ ~peers[connectionRef[b]].initiator

\* C9: a client whose channel is down while it is Calling, Receiving or
\* InCall eventually is Idle with an error shown.
C9_ChannelDropEndsCall ==
  \A c \in Clients :
    (~connected[c] /\ ~Idle(c)) ~> (Idle(c) /\ error[c] # NoError)

\* the announces c has emitted and the registry has not handled yet
ReadyIn(q) == {i \in 1..Len(q) : q[i].type = "ready"}

\* C10: every (re)connection of the channel makes the client emit 'ready'
\* with its own code, and the code of every announce is the one code the
\* client was constructed with.
C10_AnnounceOnEveryConnect ==
  [][ \A c \in Clients :
        /\ (~connected[c] /\ connected'[c])
             => /\ Len(outq'[c]) > Len(outq[c])
                /\ outq'[c][Len(outq'[c])] = [type |-> "ready", code |-> myCode[c]]
        /\ \A i \in ReadyIn(outq'[c]) : outq'[c][i].code = myCode[c]
        /\ myCode'[c] = myCode[c]
    ]_vars

\* a channel has dropped and every client is connected again, an announce of
\* a client the registry does not map is on its way
C10_Witness ==
  /\ drops > 0
  /\ \A c \in Clients : connected[c]
  /\ \E c \in Clients : myCode[c] \notin registered /\ ReadyIn(outq[c]) # {}

\* C11: while the last settled getUserMedia call is a failure
\* (permissionDenied), neither "Join" nor "Accept" can act: no step of
\* callUser or acceptCall is possible, so they change no call state, build
\* no connection and emit nothing, also when an earlier success has left a
\* media handle in `stream`.
C11_CallActionsDisabled ==
  \A c \in Clients :
    permissionDenied[c] => (~ENABLED CallClick(c) /\ ~ENABLED AcceptClick(c))

\* a refused client that still holds the handle of an earlier success and is
\* being offered a call
C11_Witness ==
  \E c \in Clients :
    /\ permissionDenied[c] /\ stream[c] # NoStream
    /\ receiving[c] /\ targetCode[c] # NoCode

\* C12: once a call is established, the remote sink of the initiator and of
\* the responder each come to hold the stream of their current connection
\* (unless the call is torn down first), whether the responder's stream
\* event fires before or after accept.
C12_BothSidesSurfaceRemote ==
  \A a \in Clients : \A b \in Clients \ {a} :
    Established(a, b) ~>
      \/ (peerVideo[a] = connectionRef[a] /\ peerVideo[b] = connectionRef[b])
      \/ ~Established(a, b)

\* the "Decline" click: endCall on a client that is Receiving and has not accepted
Decline(b) == receiving[b] /\ ~inCall[b] /\ EndClick(b)

\* C13: when the responder declines an offered call, no message for that call
\* reaches the caller: the declined responder connection has emitted no
\* answer (a destroyed connection emits none afterwards), so the caller is
\* not moved from Calling to InCall by that call.
C13_DeclineSendsNothing ==
  [][ \A b \in Clients :
        (Decline(b) /\ connectionRef[b] \in PeerIds /\ ~peers[connectionRef[b]].initiator)
          => ~peers[connectionRef[b]].signaled
    ]_vars

\* the registry routes the oldest emit of a, an offer, to the announced and
\* unpaired client c
OfferArrivesAt(a, c) ==
  /\ connected[a] /\ outq[a] # <<>>
  /\ Head(outq[a]).type = "callUser"
  /\ Head(outq[a]).userToCall = myCode[c]
  /\ myCode[c] \in registered /\ myCode[c] \notin paired
  /\ Route(a)

\* the state a call action acts on: flags, current connection, connections, emits
CallFootprint(c) == <<calling[c], receiving[c], inCall[c], connectionRef[c], peers, outq[c]>>

\* C14: with no media handle (stream is null) a click on "Join" and an
\* incoming offer build no connection, emit nothing and leave
\* calling/receiving/inCall alone; each only sets its error notice.
C14_NoMediaNoCall ==
  [][ \A c \in Clients :
        stream[c] = NoStream =>
          /\ CallClick(c) =>
               (CallFootprint(c)' = CallFootprint(c) /\ error'[c] = ErrCamCall)
          /\ \A a \in Clients \ {c} :
               OfferArrivesAt(a, c) =>
                 (CallFootprint(c)' = CallFootprint(c) /\ error'[c] = ErrCamIncoming)
    ]_vars

\* an offer has been turned away by a client that has no media handle
C14_Witness ==
  \E c \in Clients :
    /\ stream[c] = NoStream /\ error[c] = ErrCamIncoming
    /\ Idle(c) /\ connectionRef[c] = NoPeer
    /\ \E p \in PeerIds : peers[p].initiator /\ peers[p].remote = myCode[c] /\ peers[p].signaled

\* the registry routes the oldest emit of b, an answer, to the announced client a
AnswerArrivesAt(b, a) ==
  /\ connected[b] /\ outq[b] # <<>>
  /\ Head(outq[b]).type = "answerCall"
  /\ Head(outq[b]).to = myCode[a]
  /\ myCode[a] \in registered
  /\ Route(b)

\* p can take an answer: a live initiator that has sent its offer and holds no answer
AwaitsAnswer(p) ==
  /\ ~peers[p].destroyed
  /\ peers[p].initiator /\ peers[p].signaled
  /\ ~peers[p].answered /\ peers[p].fed = 0

\* C15: the connection that a received answer is fed into (the current one,
\* if any) is a live initiator that has sent its offer and has not been fed
\* an answer before: never a responder, a destroyed connection or a
\* connection that already took one.
C15_AnswerFedToWaitingInitiator ==
  [][ \A a \in Clients : \A b \in Clients \ {a} :
        (AnswerArrivesAt(b, a) /\ connectionRef[a] # NoPeer)
          => AwaitsAnswer(connectionRef[a])
    ]_vars

\* the messages of kind k that c has emitted and the registry has not yet taken
Emitted(c, k) == {outq[c][i] : i \in {j \in 1..Len(outq[c]) : outq[c][j].type = k}}

\* C16: every answer a client emits comes from a responder connection of
\* that client and is addressed to the `from` of the offer that built that
\* connection (the owner of the offering connection, when the offer came from
\* a modelled client), also while offers of several callers are pending; every
\* offer a client emits carries its own code as `from`.
C16_MessagesWellAddressed ==
  \A c \in Clients :
    /\ \A m \in Emitted(c, "answerCall") :
         /\ peers[m.signal].owner = c /\ ~peers[m.signal].initiator
         /\ m.to = peers[m.signal].remote
         /\ peers[m.signal].offer # NoPeer => m.to = myCode[peers[peers[m.signal].offer].owner]
    /\ \A m \in Emitted(c, "callUser") :
         /\ m.from = myCode[c]
         /\ peers[m.signalData].owner = c /\ peers[m.signalData].initiator

\* c has emitted the answer of one responder connection while a responder
\* built for another caller is still to answer
C16_Witness ==
  \E c \in Clients : \E m \in Emitted(c, "answerCall") : \E q \in LivePeersOf(c) :
    /\ ~peers[q].initiator /\ ~peers[q].signaled
    /\ q < m.signal
    /\ peers[q].remote # m.to

\* C17: a client that is Idle (calling, receiving and inCall all false) owns
\* no live connection; in particular userBusy / userNotFound leave none behind.
C17_IdleHoldsNoConnection ==
  \A c \in Clients : Idle(c) => LivePeersOf(c) = {}

\* offer and answer of one handshake have both been generated or applied on p:
\* an initiator has sent its offer and taken the answer, a responder (fed the
\* offer at construction) has generated its answer
Negotiated(p) ==
  /\ peers[p].signaled
  /\ peers[p].initiator => peers[p].answered

\* C18: a client that is InCall has a current connection, which is live and
\* negotiated.
C18_InCallHasNegotiatedConnection ==
  \A c \in Clients :
    inCall[c] => (connectionRef[c] \in LivePeersOf(c) /\ Negotiated(connectionRef[c]))

\* every success of getUserMedia re-issues the request: while no call fails,
\* a client always has one outstanding
RequestAlwaysPending == \A c \in Clients : gumPending[c] >= 1

\* C19: once a getUserMedia call has succeeded, and with no retry click or
\* devicechange event, the client comes to a state with no getUserMedia call
\* pending.
C19_MediaQuiesces ==
  \A c \in Clients : (stream[c] # NoStream) ~> (gumPending[c] = 0)

\* a has ended the call it had with b: a is Idle with its end of the handshake
\* destroyed, b is still InCall on the other end
HungUpOn(a, b) ==
  /\ Idle(a) /\ inCall[b]
  /\ connectionRef[a] \in PeerIds /\ connectionRef[b] \in PeerIds
  /\ Linked(connectionRef[a], connectionRef[b])
  /\ peers[connectionRef[a]].destroyed

\* C20: when one participant of an established call ends it, the other
\* participant comes back to Idle.
C20_TeardownPropagates ==
  \A a \in Clients : \A b \in Clients \ {a} : HungUpOn(a, b) ~> Idle(b)

====
